---------------------------- MODULE Spec2Model ----------------------------
(***************************************************************************)
(* Exscript.workqueue.MainLoop: the work queue's coordinator thread, its   *)
(* admission API (enqueue, enqueue_or_ignore, priority_enqueue,            *)
(* priority_enqueue_or_raise), the waits (wait_for, wait_until_done),      *)
(* shutdown, and the job threads it starts.                                *)
(*                                                                         *)
(* Every public method takes self.condition for its whole body, and run()  *)
(* holds it for a whole loop iteration, so each of them is one atomic      *)
(* action here.  The lock is a variable all the same: run() never releases *)
(* it when an exception leaves the loop, and everything that needs the     *)
(* lock is then disabled for good.                                         *)
(*                                                                         *)
(* Exscript.workqueue.Job is not part of the sources at hand; the job      *)
(* thread (JobFinish) is modelled from the specification's sections 3 and  *)
(* 4.5.                                                                    *)
(***************************************************************************)
EXTENDS Integers, Sequences, FiniteSets, TLC

VARIABLES
    queue,             \* self.queue: deque of jobs
    force_start,       \* self.force_start: list of jobs
    running_jobs,      \* self.running_jobs: list of jobs
    sleeping_actions,  \* self.sleeping_actions: list of actions
    paused,            \* self.paused
    shutdown_now,      \* self.shutdown_now
    max_threads,       \* self.max_threads
    lock,              \* owner of self.condition's lock: "free" or "MainLoop"
    main_pc,           \* the coordinator thread: "ready", "waiting", "done", "crashed"
    events,            \* the events fired so far, in order
    next_id,           \* identity of the next Job object created
    last_call,         \* the API call made by the last step and what it returned
    waiter,            \* a client thread in wait_for / wait_until_done
    shut,              \* the client thread that calls shutdown()
    shut_running,      \* ids of the jobs in running_jobs when shutdown_now was set
    woken,             \* whether _action_wake_notify ever removed an action
    markers            \* the client threads inside mark_sleeping / mark_awake

vars == <<queue, force_start, running_jobs, sleeping_actions, paused,
          shutdown_now, max_threads, lock, main_pc, events, next_id,
          last_call, waiter, shut, shut_running, woken, markers>>

---------------------------------------------------------------------------
(* Bounds of the model *)

\* Job objects created in one behaviour
MaxJobs == 2
\* largest retry budget passed as `times`
MaxTimes == 2
\* longest sleeping_actions list
MaxSleeping == 2
\* largest limit passed to set_max_threads
MaxLimit == 2
\* Job objects created in the first-in-first-out scenario
MaxFifoJobs == 3
\* Job objects created where jobs are raised in the queue
MaxRaiseJobs == 3
\* Job objects created where callers mark actions as sleeping and awake
MaxMarkJobs == 1

\* The actions handed to the queue; a1 and a2 are distinct actions that
\* carry the same name.
Actions == {"a1", "a2", "b1"}

ActionName(action) == IF action = "b1" THEN "b" ELSE "a"

None == [id |-> 0, action |-> "none", name |-> "none", times |-> 0,
         failures |-> 0, exc_info |-> FALSE, st |-> "none"]

NoCall == [op |-> "none", action |-> "none", force |-> FALSE, ret |-> "none"]

Call(op, action, force, ret) ==
    [op |-> op, action |-> action, force |-> force, ret |-> ret]

---------------------------------------------------------------------------
(* Sequences *)

RECURSIVE SelectJobs(_, _)
SelectJobs(jobs, state) ==
    IF jobs = <<>> THEN <<>>
    ELSE IF Head(jobs).st = state
         THEN <<Head(jobs)>> \o SelectJobs(Tail(jobs), state)
         ELSE SelectJobs(Tail(jobs), state)

\* list.remove / deque.remove: drops the first element equal to x
RECURSIVE Remove(_, _)
Remove(s, x) ==
    IF s = <<>> THEN <<>>
    ELSE IF Head(s) = x THEN Tail(s)
         ELSE <<Head(s)>> \o Remove(Tail(s), x)

\* the first job of the sequence with that name, or None
RECURSIVE FirstNamed(_, _)
FirstNamed(jobs, name) ==
    IF jobs = <<>> THEN None
    ELSE IF Head(jobs).name = name THEN Head(jobs)
         ELSE FirstNamed(Tail(jobs), name)

Ids(jobs) == {jobs[i].id : i \in 1..Len(jobs)}

---------------------------------------------------------------------------
(* Helpers of MainLoop *)

create_job(action, times) ==
    [id |-> next_id, action |-> action, name |-> ActionName(action),
     times |-> times, failures |-> 0, exc_info |-> FALSE, st |-> "new"]

chain_all == queue \o force_start \o running_jobs

in_queue(action) ==
    \E i \in 1..Len(chain_all) : chain_all[i].action = action

get_running_actions == [i \in 1..Len(running_jobs) |-> running_jobs[i].action]

in_progress(action) ==
    \E i \in 1..Len(get_running_actions) : get_running_actions[i] = action

\* a length that leaves the forced jobs out
get_queue_length_no_force == Len(queue) + Len(running_jobs)

get_queue_length == Len(queue) + Len(force_start) + Len(running_jobs)

\* a lookup that searches the queue alone
get_first_job_from_name_queue_only(job_name) == FirstNamed(queue, job_name)

get_first_job_from_name(job_name) == FirstNamed(chain_all, job_name)

\* condition.notify_all(): every thread blocked in condition.wait() is
\* made ready to take the lock again.
NotifyMain == IF main_pc = "waiting" THEN "ready" ELSE main_pc

NotifyWaiter ==
    IF waiter.pc = "blocked" THEN [waiter EXCEPT !.pc = "notified"] ELSE waiter

\* an event carries the job's action; the job's identity and retry budget
\* are noted with it
Event(ev, job) ==
    [ev |-> ev, job |-> job.id, action |-> job.action, times |-> job.times]

\* r is the coordinator's view while it holds the lock:
\* [running, events, crashed]

\* a start that lists the job a second time
start_job_twice(r, job) ==
    [r EXCEPT !.running = Append(Append(r.running, [job EXCEPT !.st = "alive"]),
                                 [job EXCEPT !.st = "alive"]),
              !.events = Append(r.events, Event("started", job))]

\* self.running_jobs.append(job); job_started_event; job.start()
start_job(r, job) ==
    [r EXCEPT !.running = Append(r.running, [job EXCEPT !.st = "alive"]),
              !.events = Append(r.events, Event("started", job))]

\* a handler that swallowed the exception: the job is dropped and the loop
\* goes on
restart_job_swallowed(r, job) == r

\* self._start_job(copy(job)): the module imports no `copy`, so the call
\* raises NameError before anything is started; the exception leaves run()
\* with the lock held.
restart_job(r, job) == [r EXCEPT !.crashed = TRUE]

on_job_completed(r, job) ==
    IF job.exc_info
    THEN LET r1 == [r EXCEPT !.events = Append(r.events, Event("error", job))]
         IN  IF job.failures >= job.times
             THEN [r1 EXCEPT !.events = Append(r1.events, Event("aborted", job))]
             ELSE restart_job(r1, job)
    ELSE [r EXCEPT !.events = Append(r.events, Event("succeeded", job))]

RECURSIVE NotifyCompleted(_, _)
NotifyCompleted(r, completed) ==
    IF completed = <<>> \/ r.crashed THEN r
    ELSE NotifyCompleted(on_job_completed(r, Head(completed)), Tail(completed))

update_running_jobs ==
    NotifyCompleted([running |-> SelectJobs(running_jobs, "alive"),
                     events |-> events, crashed |-> FALSE],
                    SelectJobs(running_jobs, "dead"))

RECURSIVE StartAll(_, _)
StartAll(r, jobs) ==
    IF jobs = <<>> THEN r ELSE StartAll(start_job(r, Head(jobs)), Tail(jobs))

---------------------------------------------------------------------------
(* Construction *)

\* the threads that call mark_sleeping and mark_awake from outside the
\* jobs
Callers == {"c1", "c2"}

\* a caller outside any call
IdleMarker == [op |-> "none", action |-> "none", pc |-> "idle"]

Init ==
    /\ queue = <<>>
    /\ force_start = <<>>
    /\ running_jobs = <<>>
    /\ sleeping_actions = <<>>
    /\ paused = TRUE
    /\ shutdown_now = FALSE
    /\ max_threads = 1
    /\ lock = "free"
    /\ main_pc = "ready"
    /\ events = <<>>
    /\ next_id = 1
    /\ last_call = NoCall
    /\ waiter = [op |-> "none", action |-> "none", pc |-> "idle"]
    /\ shut = [pc |-> "none", idx |-> 0]
    /\ shut_running = {}
    /\ woken = FALSE
    /\ markers = [c \in Callers |-> IdleMarker]

---------------------------------------------------------------------------
(* Admission API *)

\* an enqueue that pushes at the head
enqueue_appendleft(action, times) ==
    /\ UNCHANGED markers
    /\ lock = "free"
    /\ queue' = <<create_job(action, times)>> \o queue
    /\ next_id' = next_id + 1
    /\ main_pc' = NotifyMain
    /\ waiter' = NotifyWaiter
    /\ last_call' = NoCall
    /\ UNCHANGED <<force_start, running_jobs, sleeping_actions, paused,
                   shutdown_now, max_threads, lock, events, shut,
                   shut_running, woken>>

enqueue(action, times) ==
    /\ UNCHANGED markers
    /\ lock = "free"
    /\ queue' = Append(queue, create_job(action, times))
    /\ next_id' = next_id + 1
    /\ main_pc' = NotifyMain
    /\ waiter' = NotifyWaiter
    /\ last_call' = NoCall
    /\ UNCHANGED <<force_start, running_jobs, sleeping_actions, paused,
                   shutdown_now, max_threads, lock, events, shut,
                   shut_running, woken>>

enqueue_or_ignore(action, times) ==
    /\ UNCHANGED markers
    /\ lock = "free"
    /\ IF get_first_job_from_name(ActionName(action)) = None
       THEN /\ queue' = Append(queue, create_job(action, times))
            /\ next_id' = next_id + 1
            /\ last_call' = Call("enqueue_or_ignore", action, FALSE, "True")
       ELSE /\ UNCHANGED <<queue, next_id>>
            /\ last_call' = Call("enqueue_or_ignore", action, FALSE, "False")
    /\ main_pc' = NotifyMain
    /\ waiter' = NotifyWaiter
    /\ UNCHANGED <<force_start, running_jobs, sleeping_actions, paused,
                   shutdown_now, max_threads, lock, events, shut,
                   shut_running, woken>>

\* a priority_enqueue that queues at the tail
priority_enqueue_tail(action, force, times) ==
    /\ UNCHANGED markers
    /\ lock = "free"
    /\ IF force
       THEN /\ force_start' = Append(force_start, create_job(action, times))
            /\ UNCHANGED queue
       ELSE /\ queue' = Append(queue, create_job(action, times))
            /\ UNCHANGED force_start
    /\ next_id' = next_id + 1
    /\ main_pc' = NotifyMain
    /\ waiter' = NotifyWaiter
    /\ last_call' = NoCall
    /\ UNCHANGED <<running_jobs, sleeping_actions, paused, shutdown_now,
                   max_threads, lock, events, shut, shut_running, woken>>

\* force_start.append(job) or queue.appendleft(job)
priority_enqueue(action, force, times) ==
    /\ UNCHANGED markers
    /\ lock = "free"
    /\ IF force
       THEN /\ force_start' = Append(force_start, create_job(action, times))
            /\ UNCHANGED queue
       ELSE /\ queue' = <<create_job(action, times)>> \o queue
            /\ UNCHANGED force_start
    /\ next_id' = next_id + 1
    /\ main_pc' = NotifyMain
    /\ waiter' = NotifyWaiter
    /\ last_call' = NoCall
    /\ UNCHANGED <<running_jobs, sleeping_actions, paused, shutdown_now,
                   max_threads, lock, events, shut, shut_running, woken>>

\* the variant that leaves the queued entry in place
priority_enqueue_or_raise_keep(action, force, times) ==
    /\ UNCHANGED markers
    /\ lock = "free"
    /\ IF FirstNamed(force_start \o running_jobs, ActionName(action)) # None
       THEN /\ UNCHANGED <<queue, force_start, next_id>>
            /\ last_call' = Call("priority_enqueue_or_raise", action, force, "False")
       ELSE LET existing == FirstNamed(queue, ActionName(action))
                job == create_job(IF existing # None THEN existing.action
                                                     ELSE action, times)
            IN  /\ IF force
                   THEN /\ force_start' = Append(force_start, job)
                        /\ UNCHANGED queue
                   ELSE /\ queue' = <<job>> \o queue
                        /\ UNCHANGED force_start
                /\ next_id' = next_id + 1
                /\ last_call' = Call("priority_enqueue_or_raise", action, force,
                                     IF existing = None THEN "True" ELSE "False")
    /\ main_pc' = NotifyMain
    /\ waiter' = NotifyWaiter
    /\ UNCHANGED <<running_jobs, sleeping_actions, paused, shutdown_now,
                   max_threads, lock, events, shut, shut_running, woken>>

priority_enqueue_or_raise(action, force, times) ==
    /\ UNCHANGED markers
    /\ lock = "free"
    /\ IF FirstNamed(force_start \o running_jobs, ActionName(action)) # None
       THEN /\ UNCHANGED <<queue, force_start, next_id>>
            /\ last_call' = Call("priority_enqueue_or_raise", action, force, "False")
       ELSE LET existing == FirstNamed(queue, ActionName(action))
                rest == IF existing # None THEN Remove(queue, existing) ELSE queue
                job == create_job(IF existing # None THEN existing.action
                                                     ELSE action, times)
            IN  /\ IF force
                   THEN /\ force_start' = Append(force_start, job)
                        /\ queue' = rest
                   ELSE /\ queue' = <<job>> \o rest
                        /\ UNCHANGED force_start
                /\ next_id' = next_id + 1
                /\ last_call' = Call("priority_enqueue_or_raise", action, force,
                                     IF existing = None THEN "True" ELSE "False")
    /\ main_pc' = NotifyMain
    /\ waiter' = NotifyWaiter
    /\ UNCHANGED <<running_jobs, sleeping_actions, paused, shutdown_now,
                   max_threads, lock, events, shut, shut_running, woken>>

pause ==
    /\ UNCHANGED markers
    /\ lock = "free"
    /\ paused' = TRUE
    /\ main_pc' = NotifyMain
    /\ waiter' = NotifyWaiter
    /\ last_call' = NoCall
    /\ UNCHANGED <<queue, force_start, running_jobs, sleeping_actions,
                   shutdown_now, max_threads, lock, events, next_id, shut,
                   shut_running, woken>>

resume ==
    /\ UNCHANGED markers
    /\ lock = "free"
    /\ paused' = FALSE
    /\ main_pc' = NotifyMain
    /\ waiter' = NotifyWaiter
    /\ last_call' = NoCall
    /\ UNCHANGED <<queue, force_start, running_jobs, sleeping_actions,
                   shutdown_now, max_threads, lock, events, next_id, shut,
                   shut_running, woken>>

set_max_threads(n) ==
    /\ UNCHANGED markers
    /\ lock = "free"
    /\ max_threads' = n
    /\ main_pc' = NotifyMain
    /\ waiter' = NotifyWaiter
    /\ last_call' = NoCall
    /\ UNCHANGED <<queue, force_start, running_jobs, sleeping_actions, paused,
                   shutdown_now, lock, events, next_id, shut, shut_running,
                   woken>>

---------------------------------------------------------------------------
(* Job threads *)

\* The thread of running_jobs[i] ends: the action returned (failed = FALSE)
\* or raised (failed = TRUE).  The job records the failure, broadcasts on
\* the condition, which takes the lock, and its thread is gone.
JobFinish(i, failed) ==
    /\ UNCHANGED markers
    /\ lock = "free"
    /\ i \in 1..Len(running_jobs)
    /\ running_jobs[i].st = "alive"
    /\ running_jobs' = [running_jobs EXCEPT ![i] =
            [@ EXCEPT !.st = "dead",
                      !.exc_info = failed,
                      !.failures = IF failed THEN @ + 1 ELSE @]]
    /\ main_pc' = NotifyMain
    /\ waiter' = NotifyWaiter
    /\ last_call' = NoCall
    /\ UNCHANGED <<queue, force_start, sleeping_actions, paused, shutdown_now,
                   max_threads, lock, events, next_id, shut, shut_running,
                   woken>>

\* Both asserts are evaluated before the lock is taken; a failed assert
\* raises AssertionError in the caller and nothing is touched.
action_sleep_notify(action) ==
    /\ UNCHANGED markers
    /\ lock = "free"
    /\ IF in_progress(action)
       THEN /\ sleeping_actions' = Append(sleeping_actions, action)
            /\ main_pc' = NotifyMain
            /\ waiter' = NotifyWaiter
            /\ last_call' = NoCall
       ELSE /\ last_call' = Call("mark_sleeping", action, FALSE, "AssertionError")
            /\ UNCHANGED <<sleeping_actions, main_pc, waiter>>
    /\ UNCHANGED <<queue, force_start, running_jobs, paused, shutdown_now,
                   max_threads, lock, events, next_id, shut, shut_running,
                   woken>>

action_wake_notify(action) ==
    /\ UNCHANGED markers
    /\ lock = "free"
    /\ IF in_progress(action)
          /\ \E i \in 1..Len(sleeping_actions) : sleeping_actions[i] = action
       THEN /\ sleeping_actions' = Remove(sleeping_actions, action)
            /\ main_pc' = NotifyMain
            /\ waiter' = NotifyWaiter
            /\ woken' = TRUE
            /\ last_call' = NoCall
       ELSE /\ last_call' = Call("mark_awake", action, FALSE, "AssertionError")
            /\ UNCHANGED <<sleeping_actions, main_pc, waiter, woken>>
    /\ UNCHANGED <<queue, force_start, running_jobs, paused, shutdown_now,
                   max_threads, lock, events, next_id, shut, shut_running>>

\* mark_sleeping and mark_awake as the code runs them when the caller is
\* a thread of its own: the asserts of lines 46 and 52-53 read the lists
\* without the lock, the list is changed later, under the lock.  A caller
\* that has passed its asserts waits for the lock with pc = "asserted".

\* an entry that forgets the assert
action_sleep_assert_skipped(c, action) ==
    /\ markers[c].pc = "idle"
    /\ markers' = [markers EXCEPT ![c] =
            [op |-> "mark_sleeping", action |-> action, pc |-> "asserted"]]
    /\ last_call' = NoCall
    /\ UNCHANGED <<queue, force_start, running_jobs, sleeping_actions, paused,
                   shutdown_now, max_threads, lock, main_pc, events, next_id,
                   waiter, shut, shut_running, woken>>

\* assert self.in_progress(action)
action_sleep_assert(c, action) ==
    /\ markers[c].pc = "idle"
    /\ IF in_progress(action)
       THEN /\ markers' = [markers EXCEPT ![c] =
                   [op |-> "mark_sleeping", action |-> action, pc |-> "asserted"]]
            /\ last_call' = NoCall
       ELSE /\ last_call' = Call("mark_sleeping", action, FALSE, "AssertionError")
            /\ UNCHANGED markers
    /\ UNCHANGED <<queue, force_start, running_jobs, sleeping_actions, paused,
                   shutdown_now, max_threads, lock, main_pc, events, next_id,
                   waiter, shut, shut_running, woken>>

\* with self.condition: sleeping_actions.append(action); notify_all()
action_sleep_append(c) ==
    /\ lock = "free"
    /\ markers[c].pc = "asserted"
    /\ markers[c].op = "mark_sleeping"
    /\ sleeping_actions' = Append(sleeping_actions, markers[c].action)
    /\ main_pc' = NotifyMain
    /\ waiter' = NotifyWaiter
    /\ markers' = [markers EXCEPT ![c] = IdleMarker]
    /\ last_call' = Call("mark_sleeping", markers[c].action, FALSE, "None")
    /\ UNCHANGED <<queue, force_start, running_jobs, paused, shutdown_now,
                   max_threads, lock, events, next_id, shut, shut_running,
                   woken>>

\* assert self.in_progress(action); assert action in self.sleeping_actions
action_wake_assert(c, action) ==
    /\ markers[c].pc = "idle"
    /\ IF in_progress(action)
          /\ \E i \in 1..Len(sleeping_actions) : sleeping_actions[i] = action
       THEN /\ markers' = [markers EXCEPT ![c] =
                   [op |-> "mark_awake", action |-> action, pc |-> "asserted"]]
            /\ last_call' = NoCall
       ELSE /\ last_call' = Call("mark_awake", action, FALSE, "AssertionError")
            /\ UNCHANGED markers
    /\ UNCHANGED <<queue, force_start, running_jobs, sleeping_actions, paused,
                   shutdown_now, max_threads, lock, main_pc, events, next_id,
                   waiter, shut, shut_running, woken>>

\* with self.condition: sleeping_actions.remove(action); notify_all().
\* list.remove raises ValueError when the action is no longer listed: the
\* with block gives the lock up and notify_all() is not reached.
action_wake_remove(c) ==
    /\ lock = "free"
    /\ markers[c].pc = "asserted"
    /\ markers[c].op = "mark_awake"
    /\ markers' = [markers EXCEPT ![c] = IdleMarker]
    /\ IF \E i \in 1..Len(sleeping_actions) :
              sleeping_actions[i] = markers[c].action
       THEN /\ sleeping_actions' = Remove(sleeping_actions, markers[c].action)
            /\ main_pc' = NotifyMain
            /\ waiter' = NotifyWaiter
            /\ woken' = TRUE
            /\ last_call' = Call("mark_awake", markers[c].action, FALSE, "None")
       ELSE /\ last_call' = Call("mark_awake", markers[c].action, FALSE,
                                 "ValueError")
            /\ UNCHANGED <<sleeping_actions, main_pc, waiter, woken>>
    /\ UNCHANGED <<queue, force_start, running_jobs, paused, shutdown_now,
                   max_threads, lock, events, next_id, shut, shut_running>>

---------------------------------------------------------------------------
(* The coordinator: one iteration of run()'s loop, from taking the lock   *)
(* (or returning from condition.wait()) to giving it up again.  The       *)
(* queue_empty_event (line 245) changes nothing of the monitor and is not *)
(* recorded in events.                                                    *)

\* a loop that never tests the flag
loop_ignores_shutdown == TRUE

\* while not self.shutdown_now
loop_condition == ~shutdown_now

\* a gate that lets one job too many through
gate_off_by_one(r) == Len(r.running) - Len(sleeping_actions) > max_threads

\* active >= self.max_threads, after the reap and the forced starts
concurrency_gate(r) == Len(r.running) - Len(sleeping_actions) >= max_threads

\* a gate that forgets the paused flag
admission_gate_ignores_pause == Len(queue) <= 0

\* len(self.queue) <= 0 or self.paused
admission_gate == Len(queue) <= 0 \/ paused

run ==
    /\ UNCHANGED markers
    /\ lock = "free"
    /\ main_pc = "ready"
    /\ last_call' = NoCall
    /\ UNCHANGED <<sleeping_actions, paused, shutdown_now, max_threads,
                   next_id, shut, shut_running, woken>>
    /\ IF ~loop_condition
       THEN /\ main_pc' = "done"
            /\ UNCHANGED <<queue, force_start, running_jobs, lock, events,
                           waiter>>
       ELSE LET r1 == update_running_jobs
                r2 == StartAll(r1, force_start)
            IN  IF r1.crashed
                THEN /\ running_jobs' = r1.running
                     /\ events' = r1.events
                     /\ main_pc' = "crashed"
                     /\ lock' = "MainLoop"
                     /\ UNCHANGED <<queue, force_start, waiter>>
                ELSE /\ force_start' = <<>>
                     /\ waiter' = NotifyWaiter
                     /\ UNCHANGED lock
                     /\ IF admission_gate \/ concurrency_gate(r2)
                        THEN /\ running_jobs' = r2.running
                             /\ events' = r2.events
                             /\ main_pc' = "waiting"
                             /\ UNCHANGED queue
                        ELSE LET r3 == start_job(r2, Head(queue))
                             IN  /\ queue' = Tail(queue)
                                 /\ running_jobs' = r3.running
                                 /\ events' = r3.events
                                 /\ main_pc' = "ready"

---------------------------------------------------------------------------
(* Observation API *)

wait_for(action) ==
    /\ UNCHANGED markers
    /\ lock = "free"
    /\ waiter.pc \in {"idle", "returned"}
    /\ waiter' = [op |-> "wait_for", action |-> action,
                  pc |-> IF in_queue(action) THEN "blocked" ELSE "returned"]
    /\ last_call' = NoCall
    /\ UNCHANGED <<queue, force_start, running_jobs, sleeping_actions, paused,
                   shutdown_now, max_threads, lock, main_pc, events, next_id,
                   shut, shut_running, woken>>

wait_until_done ==
    /\ UNCHANGED markers
    /\ lock = "free"
    /\ waiter.pc \in {"idle", "returned"}
    /\ waiter' = [op |-> "wait_until_done", action |-> "none",
                  pc |-> IF get_queue_length > 0 THEN "blocked" ELSE "returned"]
    /\ last_call' = NoCall
    /\ UNCHANGED <<queue, force_start, running_jobs, sleeping_actions, paused,
                   shutdown_now, max_threads, lock, main_pc, events, next_id,
                   shut, shut_running, woken>>

\* condition.wait() returned: the waiter holds the lock again and tests
\* its loop condition once more.
WaiterWake ==
    /\ UNCHANGED markers
    /\ lock = "free"
    /\ waiter.pc = "notified"
    /\ waiter' = [waiter EXCEPT !.pc =
            IF waiter.op = "wait_for"
            THEN IF in_queue(waiter.action) THEN "blocked" ELSE "returned"
            ELSE IF get_queue_length > 0 THEN "blocked" ELSE "returned"]
    /\ last_call' = NoCall
    /\ UNCHANGED <<queue, force_start, running_jobs, sleeping_actions, paused,
                   shutdown_now, max_threads, lock, main_pc, events, next_id,
                   shut, shut_running, woken>>

---------------------------------------------------------------------------
(* Shutdown *)

\* with self.condition: self.shutdown_now = True; notify_all()
shutdown ==
    /\ UNCHANGED markers
    /\ lock = "free"
    /\ shut.pc = "none"
    /\ shutdown_now' = TRUE
    /\ main_pc' = NotifyMain
    /\ waiter' = NotifyWaiter
    /\ shut' = [pc |-> "joining", idx |-> 1]
    /\ shut_running' = Ids(running_jobs)
    /\ last_call' = NoCall
    /\ UNCHANGED <<queue, force_start, running_jobs, sleeping_actions, paused,
                   max_threads, lock, events, next_id, woken>>

\* a join that does not wait
join_returns_at_once(job) == TRUE

\* Thread.join() returns once the thread has ended
join_returns(job) == job.st = "dead"

\* for job in self.running_jobs: job.join() -- outside the lock, on the
\* live list
ShutdownJoin ==
    /\ UNCHANGED markers
    /\ shut.pc = "joining"
    /\ IF shut.idx > Len(running_jobs)
       THEN shut' = [shut EXCEPT !.pc = "returned"]
       ELSE /\ join_returns(running_jobs[shut.idx])
            /\ shut' = [shut EXCEPT !.idx = @ + 1]
    /\ last_call' = NoCall
    /\ UNCHANGED <<queue, force_start, running_jobs, sleeping_actions, paused,
                   shutdown_now, max_threads, lock, main_pc, events, next_id,
                   waiter, shut_running, woken>>

---------------------------------------------------------------------------
(* Specifications.  The bounds cap what the environment does: how many    *)
(* Job objects it has created, how long sleeping_actions has grown.       *)

Times == 1..MaxTimes

MayCreate == next_id <= MaxJobs

\* a running job's action calls mark_sleeping / mark_awake on itself
SleepCalls ==
    \/ \E i \in 1..Len(running_jobs) :
          /\ running_jobs[i].st = "alive"
          /\ Len(sleeping_actions) < MaxSleeping
          /\ action_sleep_notify(running_jobs[i].action)
    \/ \E i \in 1..Len(running_jobs) :
          /\ running_jobs[i].st = "alive"
          /\ \E k \in 1..Len(sleeping_actions) :
                sleeping_actions[k] = running_jobs[i].action
          /\ action_wake_notify(running_jobs[i].action)

JobThreads == \E i \in 1..Len(running_jobs), failed \in BOOLEAN : JobFinish(i, failed)

\* Jobs admitted through enqueue alone, max_threads left at its value;
\* running jobs finish, fail, sleep and wake.
NextGate ==
    \/ resume
    \/ \E a \in Actions, t \in Times : MayCreate /\ enqueue(a, t)
    \/ SleepCalls
    \/ JobThreads
    \/ run

SpecGate == Init /\ [][NextGate]_vars

\* How often an action fails before it succeeds: a1 fails on every
\* attempt, a2 on its first attempt only, b1 never.
FailsFirst(action) ==
    CASE action = "a1" -> MaxTimes
      [] action = "a2" -> 1
      [] OTHER -> 0

PlannedJobThreads ==
    \E i \in 1..Len(running_jobs) :
        JobFinish(i, running_jobs[i].failures < FailsFirst(running_jobs[i].action))

Waits ==
    \/ \E a \in Actions : wait_for(a)
    \/ wait_until_done
    \/ WaiterWake

\* Jobs that fail and are retried, with clients waiting for them.
NextRetry ==
    \/ resume
    \/ \E a \in Actions, t \in Times : MayCreate /\ enqueue(a, t)
    \/ PlannedJobThreads
    \/ run
    \/ Waits

SpecRetry == Init /\ [][NextRetry]_vars

\* Jobs added by enqueue_or_ignore alone.
NextIgnore ==
    \/ resume
    \/ \E a \in Actions, t \in Times : MayCreate /\ enqueue_or_ignore(a, t)
    \/ JobThreads
    \/ run

SpecIgnore == Init /\ [][NextIgnore]_vars

SucceedingJobThreads == \E i \in 1..Len(running_jobs) : JobFinish(i, FALSE)

\* enqueue fills the queue, priority_enqueue_or_raise re-prioritises; the
\* jobs succeed.
NextRaise ==
    \/ resume
    \/ \E a \in Actions : next_id <= MaxRaiseJobs /\ enqueue(a, 1)
    \/ \E a \in Actions, f \in BOOLEAN, t \in Times :
          next_id <= MaxRaiseJobs /\ priority_enqueue_or_raise(a, f, t)
    \/ SucceedingJobThreads
    \/ run

SpecRaise == Init /\ [][NextRaise]_vars

\* Clients wait while jobs are enqueued, forced and run.
NextWait ==
    \/ resume
    \/ \E a \in Actions, t \in Times : MayCreate /\ enqueue(a, t)
    \/ \E a \in Actions, t \in Times : MayCreate /\ priority_enqueue(a, TRUE, t)
    \/ JobThreads
    \/ run
    \/ wait_until_done
    \/ WaiterWake

SpecWait == Init /\ [][NextWait]_vars

\* shutdown() against a working queue.
NextShutdown ==
    \/ resume
    \/ \E a \in Actions, t \in Times : MayCreate /\ enqueue(a, t)
    \/ \E a \in Actions, f \in BOOLEAN, t \in Times :
          MayCreate /\ priority_enqueue(a, f, t)
    \/ JobThreads
    \/ run
    \/ shutdown
    \/ ShutdownJoin

SpecShutdown == Init /\ [][NextShutdown]_vars

\* max_threads = 1, jobs added by enqueue with times = 1, every action
\* succeeds.
NextFifo ==
    \/ resume
    \/ \E a \in Actions : next_id <= MaxFifoJobs /\ enqueue(a, 1)
    \/ SucceedingJobThreads
    \/ run

SpecFifo == Init /\ [][NextFifo]_vars

\* The whole interface.
Next ==
    \/ \E a \in Actions, t \in Times : MayCreate /\ enqueue(a, t)
    \/ \E a \in Actions, t \in Times : MayCreate /\ enqueue_or_ignore(a, t)
    \/ \E a \in Actions, f \in BOOLEAN, t \in Times :
          MayCreate /\ priority_enqueue(a, f, t)
    \/ \E a \in Actions, f \in BOOLEAN, t \in Times :
          MayCreate /\ priority_enqueue_or_raise(a, f, t)
    \/ pause
    \/ resume
    \/ \E n \in 0..MaxLimit : set_max_threads(n)
    \/ SleepCalls
    \/ JobThreads
    \/ run
    \/ Waits
    \/ shutdown
    \/ ShutdownJoin

Spec == Init /\ [][Next]_vars

---------------------------------------------------------------------------
(* C1: the concurrency limit *)

Active == Len(running_jobs) - Len(sleeping_actions)

\* C1 as claimed: whenever the monitor lock is not held, the active count
\* |running_jobs| - |sleeping_actions| is at most max_threads, whatever the
\* running jobs do with mark_sleeping and mark_awake.
C1_ActiveWithinLimit == lock = "free" => Active <= max_threads

\* C1 as amended: whenever the monitor lock is not held and no running job
\* has yet been marked awake again, the active count is at most max_threads.
\* (mark_awake takes the action out of sleeping_actions without waiting for
\* a free slot, so a job that wakes while its slot was given to another one
\* raises the active count above the limit.)
C1_ActiveWithinLimitUntilWake ==
    (lock = "free" /\ ~woken) => Active <= max_threads

\* the slot of a sleeping job was given to a second job
C1_Witness ==
    /\ lock = "free"
    /\ ~woken
    /\ Len(running_jobs) = 2
    /\ \A i \in 1..2 : running_jobs[i].st = "alive"
    /\ Len(sleeping_actions) = 1
    /\ Active = max_threads

---------------------------------------------------------------------------
(* C2, C3, C7: failed attempts and retries *)

Count(ev, j) ==
    Cardinality({i \in 1..Len(events) : events[i].ev = ev /\ events[i].job = j})

Started == {events[i].job : i \in {k \in 1..Len(events) : events[k].ev = "started"}}

StartEvent(j) == CHOOSE e \in {events[i] : i \in 1..Len(events)} :
                    e.ev = "started" /\ e.job = j

Absent(j) == \A i \in 1..Len(chain_all) : chain_all[i].id # j

\* C2: a job enqueued with times = N whose action fails on every attempt
\* fires job-started and job-error at most N times each and never
\* job-succeeded, and once it is gone from queue, force_start and running it
\* has been started N times and has fired job-error N times and job-aborted
\* once.
C2_AlwaysFailing ==
    \A j \in Started :
        LET N == StartEvent(j).times
        IN  FailsFirst(StartEvent(j).action) >= N =>
              /\ Count("started", j) <= N
              /\ Count("error", j) <= N
              /\ Count("succeeded", j) = 0
              /\ Absent(j) =>
                    /\ Count("started", j) = N
                    /\ Count("error", j) = N
                    /\ Count("aborted", j) = 1

\* C3: a job enqueued with times = N whose action fails on its first k < N
\* attempts and then succeeds never fires job-aborted, and once it is gone
\* from queue, force_start and running it has been started k+1 times and has
\* fired job-error k times and job-succeeded once.
C3_FailsThenSucceeds ==
    \A j \in Started :
        LET N == StartEvent(j).times
            k == FailsFirst(StartEvent(j).action)
        IN  k < N =>
              /\ Count("aborted", j) = 0
              /\ Count("error", j) <= k
              /\ Absent(j) =>
                    /\ Count("started", j) = k + 1
                    /\ Count("error", j) = k
                    /\ Count("succeeded", j) = 1

\* C7: no state in which an action is absent from queue, force_start and
\* running while one of its started jobs has fired neither job-succeeded nor
\* job-aborted can be seen by a thread that holds the monitor lock, so
\* wait_for and wait_until_done are not released between a failed attempt
\* and the end of the job.
C7_NoReleaseBeforeFinalEvent ==
    lock = "free" =>
        \A j \in Started :
            ~in_queue(StartEvent(j).action) =>
                Count("succeeded", j) + Count("aborted", j) = 1

\* a client is still held in wait_for after its action's failed attempt was
\* reaped with retries left
C7_Witness ==
    /\ waiter.op = "wait_for"
    /\ waiter.pc \in {"blocked", "notified"}
    /\ ~in_queue(waiter.action)
    /\ \E j \in Started :
          /\ StartEvent(j).action = waiter.action
          /\ Count("error", j) = 1
          /\ Count("error", j) < StartEvent(j).times
          /\ Count("aborted", j) = 0

---------------------------------------------------------------------------
(* C4, C5: de-duplicating admission *)

NamedIn(jobs, name) == {i \in 1..Len(jobs) : jobs[i].name = name}

NameCount(name) == Cardinality(NamedIn(chain_all, name))

C5_PriorityEnqueueOrRaise ==
    [][\A a \in Actions :
         (last_call'.op = "priority_enqueue_or_raise" /\ last_call'.action = a) =>
            LET n == ActionName(a)
                f == last_call'.force
                fresh(job) == job.name = n /\ job.id \notin Ids(chain_all)
                placed ==
                    IF f
                    THEN /\ Len(force_start') = Len(force_start) + 1
                         /\ SubSeq(force_start', 1, Len(force_start)) = force_start
                         /\ fresh(force_start'[Len(force_start')])
                    ELSE /\ queue' # <<>>
                         /\ fresh(Head(queue'))
                         /\ UNCHANGED force_start
            IN  /\ UNCHANGED running_jobs
                /\ CASE NamedIn(force_start \o running_jobs, n) # {} ->
                          /\ last_call'.ret = "False"
                          /\ UNCHANGED <<queue, force_start>>
                     [] NamedIn(chain_all, n) = {} ->
                          /\ last_call'.ret = "True"
                          /\ placed
                          /\ IF f THEN UNCHANGED queue
                                  ELSE (Tail(queue') = queue
                                        /\ Head(queue').action = a)
                     [] OTHER ->
                          LET existing == FirstNamed(queue, n)
                          IN  /\ last_call'.ret = "False"
                              /\ placed
                              /\ existing.id \notin Ids(chain_all')
                              /\ (IF f THEN queue' ELSE Tail(queue'))
                                    = Remove(queue, existing)
                              /\ NameCount(n)' <= NameCount(n)]_vars

\* a queued job was raised to the head of the queue (case 3)
C5_Witness ==
    /\ last_call.op = "priority_enqueue_or_raise"
    /\ last_call.ret = "False"
    /\ ~last_call.force
    /\ NamedIn(force_start \o running_jobs, ActionName(last_call.action)) = {}
    /\ Len(queue) >= 2
    /\ Head(queue).name = ActionName(last_call.action)
    /\ Head(queue).id = next_id - 1

---------------------------------------------------------------------------
(* C6: wait_until_done *)

\* C6: wait_until_done() returns only in a state in which queue,
\* force_start and running_jobs are all empty at once.
C6_ReturnsWhenAllEmpty ==
    [][(waiter' # waiter /\ waiter'.op = "wait_until_done"
                         /\ waiter'.pc = "returned") =>
          (queue' = <<>> /\ force_start' = <<>> /\ running_jobs' = <<>>)]_vars

\* wait_until_done has returned after jobs have run to their end
C6_Witness ==
    /\ waiter.op = "wait_until_done"
    /\ waiter.pc = "returned"
    /\ get_queue_length = 0
    /\ \E i \in 1..Len(events) : events[i].ev \in {"succeeded", "aborted"}

---------------------------------------------------------------------------
(* C8, C9: shutdown *)

EventsOf(j) == SelectSeq(events, LAMBDA e : e.job = j)

Pending == queue \o force_start

\* C8: shutdown() returns only after every job that was in running_jobs
\* when it set shutdown_now has ended, and no job is added to running_jobs
\* between the flag being set and shutdown returning.
C8_ShutdownJoinsRunning ==
    /\ [](shut.pc = "returned" =>
            \A j \in shut_running :
                \E i \in 1..Len(running_jobs) :
                    running_jobs[i].id = j /\ running_jobs[i].st = "dead")
    /\ [][(shutdown_now /\ shut.pc # "returned") =>
            Ids(running_jobs') \subseteq Ids(running_jobs)]_vars

\* shutdown() has returned, and it had running jobs to wait for
C8_Witness ==
    /\ shut.pc = "returned"
    /\ Cardinality(shut_running) = 2

\* C9: once shutdown has been requested, no job that is in queue or
\* force_start is started and no event is fired for it, and shutdown_now
\* stays true.
C9_PendingNeverStarted ==
    [][shutdown_now =>
         /\ shutdown_now'
         /\ \A i \in 1..Len(Pending) :
               /\ Pending[i].id \notin Ids(running_jobs')
               /\ EventsOf(Pending[i].id)' = EventsOf(Pending[i].id)]_vars

\* the coordinator has ended and left jobs behind that it could have started
C9_Witness ==
    /\ shutdown_now
    /\ main_pc = "done"
    /\ ~paused
    /\ running_jobs = <<>>
    /\ queue # <<>>
    /\ force_start # <<>>

---------------------------------------------------------------------------
(* C10: first in, first out *)

\* C10: with max_threads = 1, the queue resumed, jobs added by enqueue with
\* times = 1 and actions that succeed, the events are started(J1),
\* succeeded(J1), started(J2), succeeded(J2), ... with J1, J2, ... the jobs
\* in the order they were enqueued.
C10_FifoAlternation ==
    \A i \in 1..Len(events) :
        /\ events[i].job = (i + 1) \div 2
        /\ events[i].ev = IF i % 2 = 1 THEN "started" ELSE "succeeded"

\* three jobs have run to their end, one after the other
C10_Witness ==
    /\ Len(events) = 6
    /\ events[6].job = 3
    /\ max_threads = 1

---------------------------------------------------------------------------
(* C11: forced starts *)

\* Jobs are forced past a paused or full queue while others run and fail.
NextForce ==
    \/ resume
    \/ \E a \in Actions, t \in Times : MayCreate /\ enqueue(a, t)
    \/ \E a \in Actions, t \in Times : MayCreate /\ priority_enqueue(a, TRUE, t)
    \/ JobThreads
    \/ run

SpecForce == Init /\ [][NextForce]_vars

StartedAfter(j) ==
    \E i \in 1..Len(events') :
        /\ i > Len(events)
        /\ events'[i].ev = "started"
        /\ events'[i].job = j

\* C11: the coordinator's next iteration moves every job of force_start to
\* running_jobs and starts it, whatever paused and the active count are,
\* and leaves force_start empty.
C11_ForcedStartNextIteration ==
    [][(run /\ ~shutdown_now /\ force_start # <<>>) =>
          /\ force_start' = <<>>
          /\ \A i \in 1..Len(force_start) :
                /\ \E k \in 1..Len(running_jobs') :
                      /\ running_jobs'[k].id = force_start[i].id
                      /\ running_jobs'[k].st = "alive"
                /\ StartedAfter(force_start[i].id)]_vars

\* the same, for the iterations whose reap restarts no job
C11_ForcedStartUnlessRestart ==
    [][(run /\ ~shutdown_now /\ force_start # <<>>
            /\ ~update_running_jobs.crashed) =>
          /\ force_start' = <<>>
          /\ \A i \in 1..Len(force_start) :
                /\ \E k \in 1..Len(running_jobs') :
                      /\ running_jobs'[k].id = force_start[i].id
                      /\ running_jobs'[k].st = "alive"
                /\ StartedAfter(force_start[i].id)]_vars

---------------------------------------------------------------------------
(* C12: pause *)

\* The scheduler is paused and resumed while jobs are queued, forced and run.
NextPause ==
    \/ pause
    \/ resume
    \/ \E a \in Actions, t \in Times : MayCreate /\ enqueue(a, t)
    \/ \E a \in Actions, t \in Times : MayCreate /\ priority_enqueue(a, TRUE, t)
    \/ JobThreads
    \/ run

SpecPause == Init /\ [][NextPause]_vars

\* C12: the scheduler starts paused and stays so until resume() is called;
\* in a step taken while paused no job leaves queue and no job of queue
\* enters running_jobs.
C12_NoAdmissionWhilePaused ==
    /\ paused = TRUE
    /\ [][/\ (paused /\ ~paused') => resume
          /\ paused =>
                \A i \in 1..Len(queue) :
                    /\ i <= Len(queue')
                    /\ queue'[i] = queue[i]
                    /\ queue[i].id \notin Ids(running_jobs')]_vars

\* paused again after a job has run, with a job queued, a free slot and
\* the coordinator waiting
C12_Witness ==
    /\ paused
    /\ queue # <<>>
    /\ main_pc = "waiting"
    /\ events # <<>>
    /\ Len(running_jobs) - Len(sleeping_actions) < max_threads

---------------------------------------------------------------------------
(* C13: waiters and shutdown *)

\* Callers wait for an action or for the whole queue while the scheduler
\* is shut down.  Every attempt succeeds.
NextHalt ==
    \/ resume
    \/ \E a \in Actions : MayCreate /\ enqueue(a, 1)
    \/ SucceedingJobThreads
    \/ run
    \/ Waits
    \/ shutdown
    \/ ShutdownJoin

\* The coordinator, the job threads, a woken waiter and the caller of
\* shutdown() are threads of their own: each goes on when it can.
SpecHalt ==
    /\ Init
    /\ [][NextHalt]_vars
    /\ WF_vars(run)
    /\ WF_vars(SucceedingJobThreads)
    /\ WF_vars(WaiterWake)
    /\ WF_vars(ShutdownJoin)

\* C13: once shutdown has been requested, a caller blocked in wait_for or
\* wait_until_done eventually returns.
C13_WaitersReturnAfterShutdown ==
    [](shutdown_now /\ waiter.pc \in {"blocked", "notified"}
          => <>(waiter.pc = "returned"))

---------------------------------------------------------------------------
(* C15: the concurrency limit *)

\* how far below zero the limit handed to set_max_threads may lie
NegLimit == 1

\* The limit is changed, to negative values too, while jobs are queued and
\* run.
NextLimit ==
    \/ resume
    \/ \E a \in Actions : MayCreate /\ enqueue(a, 1)
    \/ \E n \in (0 - NegLimit)..MaxLimit : set_max_threads(n)
    \/ SucceedingJobThreads
    \/ run

SpecLimit == Init /\ [][NextLimit]_vars

\* C15: max_threads is never negative: set_max_threads rejects a negative
\* limit and leaves max_threads as it was.
C15_MaxThreadsNonNegative == max_threads >= 0

---------------------------------------------------------------------------
(* C16: sleeping_actions and running_jobs *)

\* C16: every action of sleeping_actions is the action of a job of
\* running_jobs, no action is listed twice, and the active count is not
\* negative.
C16_SleepingSubsetOfRunning ==
    /\ \A k \in 1..Len(sleeping_actions) : in_progress(sleeping_actions[k])
    /\ \A k, l \in 1..Len(sleeping_actions) :
          sleeping_actions[k] = sleeping_actions[l] => k = l
    /\ Active >= 0

\* the part of C16 about reaped jobs: no action stays in sleeping_actions
\* after its job has left running_jobs
C16_NoSleeperOutlivesItsJob ==
    \A k \in 1..Len(sleeping_actions) : in_progress(sleeping_actions[k])

---------------------------------------------------------------------------
(* C17: one place per job *)

\* Every way of admission, against a working coordinator.
NextAdmit ==
    \/ resume
    \/ \E a \in Actions, t \in Times : MayCreate /\ enqueue(a, t)
    \/ \E a \in Actions, t \in Times : MayCreate /\ enqueue_or_ignore(a, t)
    \/ \E a \in Actions, f \in BOOLEAN, t \in Times :
          MayCreate /\ priority_enqueue(a, f, t)
    \/ \E a \in Actions, f \in BOOLEAN, t \in Times :
          MayCreate /\ priority_enqueue_or_raise(a, f, t)
    \/ JobThreads
    \/ run

SpecAdmit == Init /\ [][NextAdmit]_vars

\* C17: no Job object is listed twice in queue, force_start and
\* running_jobs taken together.
C17_OnePlacePerJob ==
    \A k, l \in 1..Len(chain_all) :
        chain_all[k].id = chain_all[l].id => k = l

\* a job runs while priority_enqueue_or_raise has just placed another one
C17_Witness ==
    /\ running_jobs # <<>>
    /\ Len(queue) + Len(force_start) >= 1
    /\ last_call.op = "priority_enqueue_or_raise"
    /\ events # <<>>

---------------------------------------------------------------------------
(* C18: the retry *)

\* C18: the coordinator step that reaps a failed job with failures < times
\* lists a running job of the same action and failure count in
\* running_jobs and starts it within that step, whatever paused and the
\* active count are, and puts nothing in queue.
C18_RetryStartedInSameStep ==
    [][(run /\ ~shutdown_now) =>
          \A i \in 1..Len(running_jobs) :
              (/\ running_jobs[i].st = "dead"
               /\ running_jobs[i].exc_info
               /\ running_jobs[i].failures < running_jobs[i].times) =>
                  /\ \E k \in 1..Len(running_jobs') :
                        /\ running_jobs'[k].action = running_jobs[i].action
                        /\ running_jobs'[k].failures = running_jobs[i].failures
                        /\ running_jobs'[k].st = "alive"
                        /\ StartedAfter(running_jobs'[k].id)
                  /\ Len(queue') <= Len(queue)]_vars

---------------------------------------------------------------------------
(* C19: the order of admission *)

\* the actions handed to enqueue and those handed to priority_enqueue
PlainActions == {"a1", "a2"}

UrgentActions == {"b1"}

\* Plain and urgent jobs are queued while the scheduler is paused and
\* resumed; every job succeeds.
NextPriority ==
    \/ pause
    \/ resume
    \/ \E a \in PlainActions : next_id <= MaxFifoJobs /\ enqueue(a, 1)
    \/ \E a \in UrgentActions :
          next_id <= MaxFifoJobs /\ priority_enqueue(a, FALSE, 1)
    \/ SucceedingJobThreads
    \/ run

SpecPriority == Init /\ [][NextPriority]_vars

\* urgent jobs stand ahead of plain ones, the latest urgent job first, and
\* plain jobs stand in the order they were enqueued
QueueOrder ==
    \A i, k \in 1..Len(queue) :
        i < k =>
            /\ queue[i].action \in PlainActions =>
                  /\ queue[k].action \in PlainActions
                  /\ queue[i].id < queue[k].id
            /\ queue[k].action \in UrgentActions =>
                  /\ queue[i].action \in UrgentActions
                  /\ queue[i].id > queue[k].id

\* C19: a job added by priority_enqueue without force_start stands at the
\* head of queue, ahead of every job queued before it, and jobs added by
\* enqueue stand in the order of their calls; the coordinator admits the
\* head of queue and nothing else, and only in a step where paused is
\* false and the active count was below max_threads.
C19_HeadAdmittedUnderGates ==
    /\ [](QueueOrder)
    /\ [][\A i \in 1..Len(queue) :
             queue[i].id \in Ids(running_jobs') =>
                 /\ i = 1
                 /\ queue' = Tail(queue)
                 /\ ~paused
                 /\ Len(running_jobs') - 1 - Len(sleeping_actions)
                        < max_threads]_vars

\* an urgent job runs while a plain job queued before it still waits
C19_Witness ==
    /\ queue # <<>>
    /\ \E k \in 1..Len(running_jobs) :
          /\ running_jobs[k].action \in UrgentActions
          /\ running_jobs[k].st = "alive"
          /\ queue[1].action \in PlainActions
          /\ queue[1].id < running_jobs[k].id

---------------------------------------------------------------------------
(* C20: progress *)

\* Jobs are enqueued and run after resume(); nobody pauses, shuts down or
\* changes the limit; a caller waits for the queue to drain.
NextLive ==
    \/ resume
    \/ \E a \in Actions, t \in Times : MayCreate /\ enqueue(a, t)
    \/ PlannedJobThreads
    \/ run
    \/ wait_until_done
    \/ WaiterWake

\* The coordinator, every job thread and a woken waiter are threads of
\* their own: each goes on when it can.  Every attempt of a job ends.
SpecLive ==
    /\ Init
    /\ [][NextLive]_vars
    /\ WF_vars(run)
    /\ WF_vars(PlannedJobThreads)
    /\ WF_vars(WaiterWake)

\* C20: once the scheduler is resumed, every enqueued job eventually
\* starts and eventually fires job-succeeded or job-aborted, the three
\* lists eventually are empty, and a caller blocked in wait_until_done
\* eventually returns.
C20_EveryJobEventuallyDone ==
    /\ \A j \in 1..MaxJobs :
          [](~paused /\ j < next_id =>
                <>(/\ Count("started", j) >= 1
                   /\ Count("succeeded", j) + Count("aborted", j) >= 1))
    /\ [](~paused => <>(get_queue_length = 0))
    /\ [](~paused /\ waiter.pc = "blocked" => <>(waiter.pc = "returned"))

---------------------------------------------------------------------------
(* C14: the preconditions of mark_sleeping and mark_awake *)

\* Two callers mark actions as sleeping and awake, of running jobs and of
\* others, while jobs are started, end and are reaped.
NextMark ==
    \/ resume
    \/ \E a \in Actions : next_id <= MaxMarkJobs /\ enqueue(a, 1)
    \/ SucceedingJobThreads
    \/ run
    \/ \E c \in Callers, a \in Actions :
          Len(sleeping_actions) < MaxSleeping /\ action_sleep_assert(c, a)
    \/ \E c \in Callers : action_sleep_append(c)
    \/ \E c \in Callers, a \in Actions : action_wake_assert(c, a)
    \/ \E c \in Callers : action_wake_remove(c)

SpecMark == Init /\ [][NextMark]_vars

Precondition(op, action) ==
    IF op = "mark_sleeping"
    THEN in_progress(action)
    ELSE /\ in_progress(action)
         /\ \E i \in 1..Len(sleeping_actions) : sleeping_actions[i] = action

\* C14: a mark_sleeping or mark_awake call whose precondition does not
\* hold gets no further than its assert: it fails with an AssertionError
\* and changes nothing of the monitor.  A call whose precondition holds
\* when it changes the list appends the action to sleeping_actions,
\* respectively removes one entry of the action, and changes nothing else
\* but the threads it notifies.
C14_MarkPreconditions ==
    [][/\ \A c \in Callers :
             (markers[c].pc = "idle" /\ markers'[c].pc = "asserted") =>
                 Precondition(markers'[c].op, markers'[c].action)
       /\ last_call'.ret = "AssertionError" =>
             /\ ~Precondition(last_call'.op, last_call'.action)
             /\ UNCHANGED <<queue, force_start, running_jobs,
                            sleeping_actions, paused, shutdown_now,
                            max_threads, lock, main_pc, events, waiter,
                            markers>>
       /\ \A c \in Callers :
             (/\ markers[c].pc = "asserted"
              /\ markers'[c].pc = "idle"
              /\ Precondition(markers[c].op, markers[c].action)) =>
                 /\ IF markers[c].op = "mark_sleeping"
                    THEN sleeping_actions' =
                             Append(sleeping_actions, markers[c].action)
                    ELSE /\ Len(sleeping_actions') = Len(sleeping_actions) - 1
                         /\ sleeping_actions' =
                                Remove(sleeping_actions, markers[c].action)
                 /\ UNCHANGED <<queue, force_start, running_jobs, paused,
                                shutdown_now, max_threads, lock,
                                events>>]_vars

\* a call has just failed its assert while an earlier call has an action
\* listed as sleeping
C14_Witness ==
    /\ last_call.ret = "AssertionError"
    /\ sleeping_actions # <<>>
    /\ running_jobs # <<>>

===========================================================================
